---- MODULE Spec2Model ----
(***************************************************************************)
(* The session transport router of the MCP server: the session table       *)
(* `transports`, the POST/GET /mcp handlers of the modular application     *)
(* (src/mcp/transport.ts, handleMcp) and of the three monolithic server    *)
(* files that carry their own copy of the router, and the two suspension   *)
(* points of a request (await connect, await handleRequest).               *)
(***************************************************************************)
EXTENDS Integers, Sequences, FiniteSets, TLC

\* Number of requests that arrive in one run (each can create one session).
MaxReqs == 3

VARIABLES
    variant,     \* which server file is running
    transports,  \* the session table: session id -> transport (engine number)
    engines,     \* the StreamableHTTPServerTransport objects created so far
    inflight,    \* requests suspended at an await: arrival number -> frame
    nreq,        \* number of requests that have arrived
    last,        \* the most recent event: an arrival or the end of a request
    call,        \* the tool call or apiRequest call under way, and its outcome
    client,      \* the command-line client: its connection and its conversation
    schema       \* the call of sanitizeSchemaForGemini under way, and its outcome

vars == <<variant, transports, engines, inflight, nreq, last, call, client, schema>>

(***************************************************************************)
(* Tool handlers and apiRequest.  An upstream answer is a network failure, *)
(* or a response with its ok flag and a body.  A body is unparseable or    *)
(* parses to one of: null; an object without data; data that is empty (an  *)
(* empty list, an object with empty docs or no fields); data of the        *)
(* declared type; data whose members lack the declared fields; data whose  *)
(* members are null.                                                       *)
(***************************************************************************)
Tools == {"get_crypto_quotes", "get_crypto_news", "get_global_market",
          "get_random_quote"}
Views == {"summary", "btc_dominance", "fear_and_greed", "market_cap", "volume"}

Null == "null"
BodyKinds == {Null, "no_data", "empty", "well_formed", "missing_fields",
              "null_members"}
NetworkError == [net |-> "error", ok |-> FALSE, body |-> "none"]
Upstreams ==
    {NetworkError} \cup [net : {"up"}, ok : BOOLEAN, body : {"unparseable"} \cup BodyKinds]

\* How a call ends: it returns a value, returns a tool result, or throws.
Returned(v) == [threw |-> FALSE, value |-> v, content |-> <<>>]
Text(t) == [threw |-> FALSE, value |-> "none",
            content |-> <<[type |-> "text", text |-> t]>>]
Raised == [threw |-> TRUE, value |-> "none", content |-> <<>>]

\* await fetch(url, options): rejects on a network failure.
Fetch(u) == IF u.net = "error" THEN Raised ELSE Returned("response")

\* await response.json(): rejects on a body that is not JSON.
ResponseJson(u) == IF u.body = "unparseable" THEN Raised ELSE Returned(u.body)

\* The try block of apiRequest.
ApiRequestTry(u) ==
    IF Fetch(u).threw THEN Raised
    ELSE IF ~u.ok THEN Returned(Null)
    ELSE ResponseJson(u)

\* apiRequest: try { ... } catch { return null; }
ApiRequestNoCatch(u) == ApiRequestTry(u)
ApiRequest(u) == IF ApiRequestTry(u).threw THEN Returned(Null) ELSE ApiRequestTry(u)

\* !x?.data?.length, !x?.data?.docs?.length: true for null, for an object
\* without data and for an empty list.
NoLength(x) == x \in {Null, "no_data", "empty"}

\* !x?.data: true for null and for an object without data.
NoDataThrowsOnNull(x) == x = "no_data"
NoData(x) == x \in {Null, "no_data"}

\* get_crypto_quotes: fetch, ok test, json(), length test, then
\* q.provider.toUpperCase() on every member.  No try/catch.
QuotesHandler(u) ==
    IF Fetch(u).threw THEN Raised
    ELSE IF ~u.ok THEN Text("Failed to fetch quotes")
    ELSE IF ResponseJson(u).threw THEN Raised
    ELSE LET result == ResponseJson(u).value IN
         IF NoLength(result) THEN Text("No quotes available")
         ELSE IF result = "well_formed" THEN Text("Crypto Quotes")
         ELSE Raised

\* get_crypto_news: apiRequest, length test, then n.title of every member
\* (undefined for a member without title, a TypeError for a null member).
NewsHandler(u) ==
    IF ApiRequest(u).threw THEN Raised
    ELSE LET response == ApiRequest(u).value IN
         IF NoLength(response) THEN Text("No news found")
         ELSE IF response = "null_members" THEN Raised
         ELSE Text("1. title")

\* get_global_market: apiRequest, data test, then the view: toFixed and
\* toLocaleString are called on the fields, fear_and_greed_index is only
\* interpolated.
MarketHandler(view, u) ==
    IF ApiRequest(u).threw THEN Raised
    ELSE LET response == ApiRequest(u).value IN
         IF NoData(response) THEN Text("Failed to fetch market data")
         ELSE IF response = "well_formed" THEN Text(view)
         ELSE IF view = "fear_and_greed" THEN Text(view)
         ELSE Raised

\* get_random_quote: quotes[Math.floor(Math.random() * quotes.length)]
Quotes == <<"The only way to do great work is to love what you do.",
            "Innovation distinguishes between a leader and a follower.",
            "Life is what happens when you're busy making other plans.",
            "The future belongs to those who believe in the beauty of their dreams.",
            "It is during our darkest moments that we must focus to see the light.">>

RandomQuoteHandler == {Text(Quotes[i]) : i \in 1..Len(Quotes)}

\* The results a tool handler can produce for one upstream answer.
Handler(tool, view, u) ==
    IF tool = "get_crypto_quotes" THEN {QuotesHandler(u)}
    ELSE IF tool = "get_crypto_news" THEN {NewsHandler(u)}
    ELSE IF tool = "get_global_market" THEN {MarketHandler(view, u)}
    ELSE RandomQuoteHandler

NoCall == [kind |-> "none", tool |-> "none", view |-> "summary",
           upstream |-> NetworkError, pc |-> "idle", result |-> Returned("none")]

\* The calls that can be made: a tool with its arguments, or apiRequest.
Calls ==
    [kind : {"tool"}, tool : Tools \ {"get_global_market"}, view : {"summary"},
     upstream : Upstreams, pc : {"pending"}, result : {Returned("none")}]
    \cup
    [kind : {"tool"}, tool : {"get_global_market"}, view : Views,
     upstream : Upstreams, pc : {"pending"}, result : {Returned("none")}]
    \cup
    [kind : {"api"}, tool : {"none"}, view : {"summary"},
     upstream : Upstreams, pc : {"pending"}, result : {Returned("none")}]

(***************************************************************************)
(* The command-line client.  init() connects once and starts the prompt    *)
(* loop; every message typed runs runMCPClient to its end before the next  *)
(* prompt.  An answer of the AI API is a final answer, a function call, a  *)
(* function call whose json_response cannot be used (missing, or with      *)
(* arguments that are no JSON), or the JSON value null.                    *)
(***************************************************************************)
MaxIterations == 10

AnswerKinds == {"final", "function_call", "bad_function_call", "null"}

\* The answer of the n-th call of the AI API in this run.
Answer(n, kind) == [id |-> n, kind |-> kind]
NoAnswer == Answer(0, "none")

\* result.is_function_call (a TypeError on null is modelled where it is read)
IsFunctionCall(a) == a.kind \in {"function_call", "bad_function_call"}

(***************************************************************************)
(* sanitizeSchemaForGemini.  A schema is a JSON value as JSON.parse builds *)
(* it: a primitive, an array, or an object whose members are all own       *)
(* properties (a member named __proto__ included) and whose prototype is   *)
(* Object.prototype.  An object the function has built can have another    *)
(* prototype, because newSchema[key] = value with the key __proto__ is the *)
(* prototype setter and no definition of a property.                       *)
(***************************************************************************)
ForbiddenKeys == {"$schema", "additionalProperties", "title", "description_internal"}

ProtoName == "__proto__"

Prim(v) == [t |-> "prim", v |-> v]
BasePrototype == [t |-> "base"]
Obj(own, proto) == [t |-> "obj", own |-> own, proto |-> proto]
Arr(a) == [t |-> "arr", a |-> a]

\* for (const key in schema): the own members and the enumerable members
\* of the prototype chain; Object.prototype has none.
RECURSIVE ForInKeys(_)
ForInKeys(x) == IF x.t = "obj" THEN DOMAIN x.own \cup ForInKeys(x.proto) ELSE {}

\* schema[key] for a key that for-in has produced
RECURSIVE Get(_, _)
Get(x, key) == IF key \in DOMAIN x.own THEN x.own[key] ELSE Get(x.proto, key)

\* The function: primitives are returned, arrays and objects are rebuilt
\* member by member without the forbidden keys.  The assignment under the
\* key __proto__ sets the prototype when the value is an object and does
\* nothing when it is a primitive.
RECURSIVE Sanitize(_)
Sanitize(x) ==
    IF x.t = "arr" THEN Arr([i \in 1..Len(x.a) |-> Sanitize(x.a[i])])
    ELSE IF x.t # "obj" THEN x
    ELSE LET kept == ForInKeys(x) \ ForbiddenKeys
             own == [key \in kept \ {ProtoName} |-> Sanitize(Get(x, key))]
         IN IF ProtoName \in kept /\ Get(x, ProtoName).t = "obj"
            THEN Obj(own, Sanitize(Get(x, ProtoName)))
            ELSE Obj(own, BasePrototype)

\* The schemas tried: objects of two levels, with arrays, with forbidden
\* keys on both levels and with a member named __proto__.
Prims == {Prim("string")}
InnerKeys == {"type", "title", "additionalProperties", "description_internal"}
OuterKeys == {"properties", "$schema", ProtoName}

Members(keys) == UNION {[d -> Prims] : d \in SUBSET keys}
Inner == {Obj(f, BasePrototype) : f \in Members(InnerKeys)}
Arrays == {Arr(<<>>)} \cup {Arr(<<v>>) : v \in Prims \cup Inner}

OuterValues(key) ==
    IF key = "properties" THEN Prims \cup Inner \cup Arrays ELSE Prims \cup Inner

Outer ==
    UNION {{Obj(f, BasePrototype) :
              f \in {g \in [d -> Prims \cup Inner \cup Arrays] :
                       \A key \in d : g[key] \in OuterValues(key)}} :
           d \in SUBSET OuterKeys}

Schemas == Prims \cup Arrays \cup Outer

NoSchema == [pc |-> "off", in |-> Prim("none"), out |-> Prim("none")]

NoClient == [pc |-> "off", isConnected |-> FALSE, connects |-> 0, iteration |-> 0,
             calls |-> 0, result |-> NoAnswer, returned |-> NoAnswer]

\* connectToMCP(): the set of ways it can end, as <<threw, client after>>.
ConnectToMCPAlways(c) ==
    {<<FALSE, [c EXCEPT !.isConnected = TRUE, !.connects = c.connects + 1]>>,
     <<TRUE, c>>}
ConnectToMCP(c) ==
    IF ~c.isConnected
    THEN {<<FALSE, [c EXCEPT !.isConnected = TRUE, !.connects = c.connects + 1]>>,
          <<TRUE, c>>}
    ELSE {<<FALSE, c>>}

\* while (result.is_function_call && iteration < maxIterations)
LoopContinuesUnbounded(c) == IsFunctionCall(c.result)
LoopContinues(c) == IsFunctionCall(c.result) /\ c.iteration < MaxIterations

(***************************************************************************)
(* Values of the mcp-session-id header / query parameter.                  *)
(***************************************************************************)
Variants == {"handleMcp", "monolithic", "authenticated", "logging"}

Absent == "undefined"          \* the header is not sent
EmptyId == ""                  \* the header is sent with an empty value
ForeignId == "not-a-real-id"   \* a string the router never generated
ProtoKey == "constructor"      \* a member every JS object inherits
UUID(i) == "uuid-" \o ToString(i)
UUIDs == {UUID(i) : i \in 1..MaxReqs}

\* Results of `sessionId && transports[sessionId]` that are no transport.
NoTransport == 0               \* undefined or "": falsy
Inherited == -1                \* Object.prototype member: truthy, no handleRequest

\* JavaScript truthiness of a header value.
Truthy(s) == s \notin {Absent, EmptyId}

\* The ids handed out so far.
Issued == {engines[e].gen : e \in DOMAIN engines}

\* randomUUID(): a value that no earlier call returned.  The values are
\* opaque, so the k-th value generated is named UUID(k).
RandomUUIDCollides == {UUID(i) : i \in 1..(Len(engines) + 1)}
RandomUUIDSupplied == {ForeignId}
RandomUUID == {UUID(Len(engines) + 1)}

\* sessionId && transports[sessionId] on the plain object `transports`.
LookupIgnoresTable(table, sessionId) == NoTransport
Lookup(table, sessionId) ==
    IF ~Truthy(sessionId) THEN NoTransport
    ELSE IF sessionId \in DOMAIN table THEN table[sessionId]
    ELSE IF sessionId = ProtoKey THEN Inherited
    ELSE NoTransport

\* The body handed to isInitializeRequest: the GET route of the modular
\* application calls handleMcp without a body.
IsInitializeRequest(in) == in.method = "POST" /\ in.isInit

\* The session id a handler reads from the request.
SessionIdOf(v, in) ==
    IF in.method = "GET" /\ v = "monolithic"
    THEN (IF Truthy(in.qry) THEN in.qry ELSE in.hdr)
    ELSE IF in.method = "GET" /\ v = "logging" THEN in.qry
    ELSE in.hdr

(***************************************************************************)
(* The requests a caller can send.  A caller can put any string in the     *)
(* header; the strings that matter are: none, "", a string that is no      *)
(* session id, an inherited member name, and every id generated so far.    *)
(***************************************************************************)
IdValues == {Absent, EmptyId, ForeignId, ProtoKey} \cup Issued

\* The handlers that read the session id from the query string.
ReadsQuery(v) == v \in {"monolithic", "logging"}

AuthValues(v) == IF v = "authenticated" THEN {"valid", "missing", "wrong"}
                                        ELSE {"missing"}

\* A GET carries the id in the header, in the query string, or, where a
\* handler reads the query string, in both places.
GetInputs(v, hdrs, qrys) ==
    [method : {"GET"}, hdr : hdrs, qry : qrys, isInit : {FALSE},
     bodyId : {"null"}, auth : AuthValues(v)]

Inputs(v) ==
    [method : {"POST"}, hdr : IdValues, qry : {Absent}, isInit : BOOLEAN,
     bodyId : IF v = "logging" THEN {"null", "1"} ELSE {"null"},
     auth : AuthValues(v)]
    \cup GetInputs(v, IdValues, {Absent})
    \cup GetInputs(v, {Absent}, IF ReadsQuery(v) THEN IdValues ELSE Issued)
    \cup IF ReadsQuery(v)
         THEN GetInputs(v, Issued, {EmptyId, ForeignId} \cup Issued)
         ELSE {}

NoInput == [method |-> "none", hdr |-> Absent, qry |-> Absent, isInit |-> FALSE,
            bodyId |-> "null", auth |-> "missing"]

(***************************************************************************)
(* Frames and responses.  A frame is what a suspended handler holds on to: *)
(* the method, the session id it read, the handshake predicate of the      *)
(* body, the transport it resolved or created, the id it generated and the *)
(* header it has set on the response.                                      *)
(***************************************************************************)
Frame(method, sessionId, isInit, pc, transport, newId, hdrOut) ==
    [method |-> method, sessionId |-> sessionId, isInit |-> isInit, pc |-> pc,
     transport |-> transport, newId |-> newId, hdrOut |-> hdrOut]

\* The frame of a handler that has read the request and resolved nothing.
Entry(v, in) ==
    Frame(in.method, SessionIdOf(v, in), IsInitializeRequest(in), "entry",
          NoTransport, Absent, Absent)

\* An event: request r arrived with input `in` and was suspended (via "await")
\* or answered at once, or the suspended request r has ended (its input is
\* gone, its frame f is left).
Response(r, in, f, via, status, code, msg, id) ==
    [req |-> r, in |-> in, method |-> f.method, sessionId |-> f.sessionId, isInit |-> f.isInit,
     via |-> via, status |-> status, code |-> code, msg |-> msg, id |-> id,
     hdrOut |-> f.hdrOut, newId |-> f.newId, transport |-> f.transport]

NoResponse ==
    Response(0, NoInput,
             Frame("none", Absent, FALSE, "entry", NoTransport, Absent, Absent),
             "none", 0, 0, "", "none")

\* The 400 answer of each POST handler (and of handleMcp on GET).
RejectBodyOneMessage(v, in) == [msg |-> "Invalid request", id |-> in.bodyId]
RejectBody(v, in) ==
    CASE v = "handleMcp" -> [msg |-> "Invalid session", id |-> "null"]
      [] v = "monolithic" -> [msg |-> "Invalid session", id |-> "null"]
      [] v = "authenticated" ->
            [msg |-> "Invalid request: missing session or not an initialize request",
             id |-> "null"]
      [] v = "logging" ->
            [msg |-> "Invalid Request: Initialization required.", id |-> in.bodyId]

\* return res.status(400).json({...}): nothing but the response is written.
RejectAfterAllocating(r, in) ==
    /\ \E newId \in RandomUUID :
         /\ engines' = Append(engines, [gen |-> newId, conn |-> "connecting"])
         /\ transports' = [k \in DOMAIN transports \cup {newId} |->
                              IF k = newId THEN Len(engines) + 1 ELSE transports[k]]
    /\ last' = Response(r, in, Entry(variant, in), "reject", 400, -32600,
                        RejectBody(variant, in).msg, RejectBody(variant, in).id)
    /\ UNCHANGED inflight
Reject(r, in) ==
    /\ last' = Response(r, in, Entry(variant, in), "reject", 400, -32600,
                        RejectBody(variant, in).msg, RejectBody(variant, in).id)
    /\ UNCHANGED <<transports, engines, inflight>>

\* The handlers with a try/catch around their body: the POST handlers of
\* the three server files.  handleMcp and the GET handlers have none.
Caught(v, method) == v # "handleMcp" /\ method = "POST"

\* An exception leaves the handler.  A POST handler of a server file
\* catches it and answers 500 unless the headers are already sent.  From
\* handleMcp and from a GET handler the promise rejects and the handler
\* writes nothing: the caller gets no response from express 4, and the 500
\* of the default error handler from express 5.
Thrown(r, in, f, headersSent) ==
    IF headersSent
    THEN last' = Response(r, in, f,
                          IF Caught(variant, f.method) THEN "catch" ELSE "unhandled",
                          200, 0, "", "none")
    ELSE IF ~Caught(variant, f.method)
    THEN \E framework \in BOOLEAN :
           last' = IF framework
                   THEN Response(r, in, f, "unhandled", 500, 0,
                                 "Internal Server Error", "none")
                   ELSE Response(r, in, f, "unhandled", 0, 0, "", "none")
    ELSE last' =
           CASE variant = "monolithic" ->
                  Response(r, in, f, "catch", 500, 0, "Internal Server Error", "none")
             [] variant = "authenticated" ->
                  Response(r, in, f, "catch", 500, -32603, "Internal server error", "null")
             [] variant = "logging" ->
                  Response(r, in, f, "catch", 500, -32603, "Internal Error", "null")

\* The handler of request r stops at an await, holding frame f.
Await(r, in, f) ==
    /\ inflight' = [k \in DOMAIN inflight \cup {r} |-> IF k = r THEN f ELSE inflight[k]]
    /\ last' = Response(r, in, f, "await", 0, 0, "", "none")

Resume(r) == [k \in DOMAIN inflight \ {r} |-> inflight[k]]

\* transports[newId] = transport
Insert(table, newId, transport) ==
    [k \in DOMAIN table \cup {newId} |-> IF k = newId THEN transport ELSE table[k]]

\* What the router keeps of a session: the key and the transport stored
\* under it.  The declared type of the table is Record<string, transport>
\* and the only write is transports[newId] = transport.
SessionRecord(table, s) == [sessionId |-> s, engine |-> table[s]]

\* sessionIdGenerator: () => newId.  The closure captures the constant of
\* the handler's call, so every call of it returns the same id.
SessionIdGeneratorFresh(newId) == "uuid-0"
SessionIdGenerator(newId) == newId

\* Create branch: new id, new transport, insert, then await connect().
CreateSession(r, in) ==
    \E newId \in RandomUUID :
      /\ engines' = Append(engines, [gen |-> SessionIdGenerator(newId),
                                     conn |-> "connecting"])
      /\ transports' = Insert(transports, newId, Len(engines) + 1)
      /\ Await(r, in, [Entry(variant, in) EXCEPT
                           !.pc = "connecting",
                           !.transport = Len(engines) + 1,
                           !.newId = newId])

\* await transport.handleRequest(req, res, body) on the resolved value.
Dispatch(r, in, t) ==
    LET f == [Entry(variant, in) EXCEPT !.pc = "handling", !.transport = t] IN
    IF t = Inherited
    THEN /\ Thrown(r, in, f, FALSE)
         /\ UNCHANGED <<transports, engines, inflight>>
    ELSE /\ Await(r, in, f)
         /\ UNCHANGED <<transports, engines>>

(***************************************************************************)
(* The decision of each handler: "reuse", "create" or "reject".            *)
(***************************************************************************)
HandleMcpDecisionStrict(in, table) ==
    IF Lookup(table, in.hdr) # NoTransport THEN "reuse"
    ELSE IF in.hdr = Absent /\ IsInitializeRequest(in) THEN "create"
    ELSE "reject"

HandleMcpDecision(in, table) ==
    LET transport == Lookup(table, in.hdr) IN
    IF transport = NoTransport /\ IsInitializeRequest(in) THEN "create"
    ELSE IF transport = NoTransport THEN "reject"
    ELSE "reuse"

MonolithicPostDecision(in, table) ==
    IF Lookup(table, in.hdr) # NoTransport THEN "reuse"
    ELSE IF IsInitializeRequest(in) THEN "create"
    ELSE "reject"

AuthenticatedPostDecision(in, table) ==
    IF Lookup(table, in.hdr) # NoTransport THEN "reuse"
    ELSE IF ~Truthy(in.hdr) /\ IsInitializeRequest(in) THEN "create"
    ELSE "reject"

LoggingPostDecision(in, table) ==
    IF Lookup(table, in.hdr) # NoTransport THEN "reuse"
    ELSE IF IsInitializeRequest(in) THEN "create"
    ELSE "reject"

PostDecision(v, in, table) ==
    CASE v = "handleMcp" -> HandleMcpDecision(in, table)
      [] v = "monolithic" -> MonolithicPostDecision(in, table)
      [] v = "authenticated" -> AuthenticatedPostDecision(in, table)
      [] v = "logging" -> LoggingPostDecision(in, table)

\* The three ways on from the decision.
Route(r, in, d) ==
    CASE d = "create" -> CreateSession(r, in)
      [] d = "reject" -> Reject(r, in)
      [] d = "reuse" -> Dispatch(r, in, Lookup(transports, in.hdr))

\* The Authorization middleware of the authenticated server file.  The
\* value "missing" stands for its first branch (no header, or a header that
\* does not start with "Bearer "), "wrong" for a token that differs from
\* the configured one.
AuthorizedAnyBearer(v, in) == v = "authenticated" => in.auth # "missing"
Authorized(v, in) == v = "authenticated" => in.auth = "valid"

(***************************************************************************)
(* Actions.                                                                *)
(***************************************************************************)
Init ==
    /\ variant \in Variants
    /\ transports = [k \in {} |-> 0]
    /\ engines = <<>>
    /\ inflight = [k \in {} |-> 0]
    /\ nreq = 0
    /\ last = NoResponse
    /\ call = NoCall
    /\ client = NoClient
    /\ schema = NoSchema

\* app.use("/mcp", ...): 401 for a request without the configured bearer token.
AuthMiddleware(in) ==
    /\ nreq < MaxReqs
    /\ ~Authorized(variant, in)
    /\ nreq' = nreq + 1
    /\ last' = Response(nreq + 1, in, Entry(variant, in), "middleware", 401, -32600,
                        IF in.auth = "missing" THEN "Missing Bearer token"
                                               ELSE "Invalid token",
                        "null")
    /\ UNCHANGED <<call, client, schema, variant, transports, engines, inflight>>

\* app.post("/mcp", ...), up to its first await or its response.
PostMcp(in) ==
    /\ nreq < MaxReqs
    /\ in.method = "POST"
    /\ Authorized(variant, in)
    /\ nreq' = nreq + 1
    /\ Route(nreq + 1, in, PostDecision(variant, in, transports))
    /\ UNCHANGED <<call, client, schema, variant>>

\* app.get("/mcp", ...), up to its first await or its response.
GetMcp(in) ==
    /\ nreq < MaxReqs
    /\ in.method = "GET"
    /\ Authorized(variant, in)
    /\ nreq' = nreq + 1
    /\ IF variant = "handleMcp"
       THEN Route(nreq + 1, in, HandleMcpDecision(in, transports))
       ELSE IF variant = "authenticated"
       THEN /\ last' = Response(nreq + 1, in, Entry(variant, in), "noroute", 404, 0,
                                "Cannot GET /mcp", "none")
            /\ UNCHANGED <<transports, engines, inflight>>
       ELSE LET t == Lookup(transports, SessionIdOf(variant, in)) IN
            IF t # NoTransport
            THEN Dispatch(nreq + 1, in, t)
            ELSE /\ last' = Response(nreq + 1, in, Entry(variant, in), "notfound", 404, 0,
                                     "Session not found. Initialize via POST first.",
                                     "none")
                 /\ UNCHANGED <<transports, engines, inflight>>
    /\ UNCHANGED <<call, client, schema, variant>>

\* The header the handler sets once connect() has returned.
HeaderNeverSet(v, newId) == Absent
HeaderAfterConnect(v, newId) ==
    IF v \in {"handleMcp", "monolithic"} THEN newId ELSE Absent

\* await connect(transport) returns: set the header, go on to handleRequest.
ConnectDone(r) ==
    /\ r \in DOMAIN inflight
    /\ inflight[r].pc = "connecting"
    /\ engines' = [engines EXCEPT ![inflight[r].transport].conn = "connected"]
    /\ inflight' = [inflight EXCEPT
                       ![r].pc = "handling",
                       ![r].hdrOut = HeaderAfterConnect(variant, inflight[r].newId)]
    /\ UNCHANGED <<call, client, schema, variant, transports, nreq, last>>

\* await connect(transport) throws.
ConnectThrows(r) ==
    /\ r \in DOMAIN inflight
    /\ inflight[r].pc = "connecting"
    /\ engines' = [engines EXCEPT ![inflight[r].transport].conn = "failed"]
    /\ Thrown(r, NoInput, inflight[r], FALSE)
    /\ inflight' = Resume(r)
    /\ UNCHANGED <<call, client, schema, variant, transports, nreq>>

\* await transport.handleRequest(...) returns: the engine has answered.
\* The engine writes the response.  Where the handler has set no header,
\* the engine of a new session may report the id of its generator itself.
EngineHeaderForeign(f) == {ForeignId}
EngineHeader(f) ==
    IF f.hdrOut # Absent THEN {f.hdrOut}
    ELSE IF f.newId # Absent THEN {Absent, engines[f.transport].gen}
    ELSE {Absent}

HandleDone(r) ==
    /\ r \in DOMAIN inflight
    /\ inflight[r].pc = "handling"
    /\ \E h \in EngineHeader(inflight[r]) :
         last' = Response(r, NoInput, [inflight[r] EXCEPT !.hdrOut = h],
                          "engine", 200, 0, "", "none")
    /\ inflight' = Resume(r)
    /\ UNCHANGED <<call, client, schema, variant, transports, engines, nreq>>

\* await transport.handleRequest(...) throws, before or after the engine
\* has started to write the response.
\* The table after handleRequest of transport t threw: no catch block and
\* no rejection path writes the table.
TableAfterThrowDropsSession(table, t) ==
    [k \in {j \in DOMAIN table : table[j] # t} |-> table[k]]
TableAfterThrow(table, t) == table

HandleThrows(r, headersSent) ==
    /\ r \in DOMAIN inflight
    /\ inflight[r].pc = "handling"
    /\ Thrown(r, NoInput, inflight[r], headersSent)
    /\ inflight' = Resume(r)
    /\ transports' = TableAfterThrow(transports, inflight[r].transport)
    /\ UNCHANGED <<call, client, schema, variant, engines, nreq>>

\* The body of GET /health: the modular application answers status and
\* transport, the server files add their name and the time.
HealthBodyOk(v) == "{status:ok}"
HealthBody(v) ==
    IF v = "handleMcp"
    THEN "{status:healthy,transport:streamable-http}"
    ELSE "{status:healthy,server:simple-mcp,transport:streamable-http,timestamp:now}"

\* app.get("/health", ...): no middleware is mounted on this path.
Health ==
    /\ last' = Response(0, NoInput,
                        Frame("GET", Absent, FALSE, "entry", NoTransport, Absent, Absent),
                        "health", 200, 0, HealthBody(variant), "none")
    /\ UNCHANGED <<call, client, schema, variant, transports, engines, inflight, nreq>>

Next ==
    \/ Health
    \/ \E in \in Inputs(variant) : AuthMiddleware(in)
    \/ \E in \in Inputs(variant) : PostMcp(in)
    \/ \E in \in Inputs(variant) : GetMcp(in)
    \/ \E r \in 1..MaxReqs : ConnectDone(r)
    \/ \E r \in 1..MaxReqs : ConnectThrows(r)
    \/ \E r \in 1..MaxReqs : HandleDone(r)
    \/ \E r \in 1..MaxReqs, headersSent \in BOOLEAN : HandleThrows(r, headersSent)

Spec == Init /\ [][Next]_vars

(***************************************************************************)
(* Termination of an engine.  No handler of the program asks an engine to  *)
(* close and no route for DELETE is mounted, so the signal comes from the  *)
(* engine itself.  The options handed to the constructor hold the id       *)
(* generator only: no callback for the close of the engine is registered,  *)
(* and no statement of the program removes a key from the table.           *)
(***************************************************************************)
EngineCloses(e) ==
    /\ e \in 1..Len(engines)
    /\ engines[e].conn = "connected"
    /\ engines' = [engines EXCEPT ![e].conn = "closed"]
    /\ last' = [NoResponse EXCEPT !.via = "closed", !.transport = e]
    /\ UNCHANGED <<call, client, schema, variant, transports, inflight, nreq>>

SpecTeardown ==
    Init /\ [][Next \/ \E e \in 1..MaxReqs : EngineCloses(e)]_vars

(***************************************************************************)
(* Tool calls.  A call is made with some arguments against some upstream   *)
(* answer and runs to its end; the router takes no part in it.             *)
(***************************************************************************)
ToolInit ==
    /\ variant = "handleMcp"
    /\ transports = [k \in {} |-> 0]
    /\ engines = <<>>
    /\ inflight = [k \in {} |-> 0]
    /\ nreq = 0
    /\ last = NoResponse
    /\ call \in Calls
    /\ client = NoClient
    /\ schema = NoSchema

RunTool ==
    /\ call.kind = "tool"
    /\ call.pc = "pending"
    /\ \E result \in Handler(call.tool, call.view, call.upstream) :
         call' = [call EXCEPT !.pc = "done", !.result = result]
    /\ UNCHANGED <<variant, transports, engines, inflight, nreq, last, client, schema>>

RunApiRequest ==
    /\ call.kind = "api"
    /\ call.pc = "pending"
    /\ call' = [call EXCEPT !.pc = "done", !.result = ApiRequest(call.upstream)]
    /\ UNCHANGED <<variant, transports, engines, inflight, nreq, last, client, schema>>

ToolNext == RunTool \/ RunApiRequest

ToolSpec == ToolInit /\ [][ToolNext]_vars

(***************************************************************************)
(* The client script.  Nothing of the server takes part in it.             *)
(***************************************************************************)
router == <<variant, transports, engines, inflight, nreq, last>>

ClientInit ==
    /\ variant = "handleMcp"
    /\ transports = [k \in {} |-> 0]
    /\ engines = <<>>
    /\ inflight = [k \in {} |-> 0]
    /\ nreq = 0
    /\ last = NoResponse
    /\ call = NoCall
    /\ schema = NoSchema
    /\ client = [NoClient EXCEPT !.pc = "init"]

\* init(): await connectToMCP(); process.exit(1) when it throws, else loop().
StartUp ==
    /\ client.pc = "init"
    /\ \E end \in ConnectToMCP(client) :
         client' = [end[2] EXCEPT !.pc = IF end[1] THEN "exited" ELSE "prompt"]
    /\ UNCHANGED <<router, call, schema>>

\* The callback of rl.question: "exit" ends the process, a message starts
\* runMCPClient.
Exit ==
    /\ client.pc = "prompt"
    /\ client' = [client EXCEPT !.pc = "exited"]
    /\ UNCHANGED <<router, call, schema>>

RunMCPClient ==
    /\ client.pc = "prompt"
    /\ client' = [client EXCEPT !.pc = "run", !.iteration = 0, !.calls = 0,
                                !.result = NoAnswer, !.returned = NoAnswer]
    /\ UNCHANGED <<router, call, schema>>

\* await connectToMCP() in runMCPClient
RunConnect ==
    /\ client.pc = "run"
    /\ \E end \in ConnectToMCP(client) :
         client' = [end[2] EXCEPT !.pc = IF end[1] THEN "threw" ELSE "listTools"]
    /\ UNCHANGED <<router, call, schema>>

\* await mcpClient.listTools(), then the request body is built.
ListTools ==
    /\ client.pc = "listTools"
    /\ \E threw \in BOOLEAN :
         client' = [client EXCEPT !.pc = IF threw THEN "threw" ELSE "initial"]
    /\ UNCHANGED <<router, call, schema>>

\* result = await callAIAPI(...): the first call and the follow-ups.  The
\* call throws on a response that is not ok or not JSON.
CallAIAPI ==
    /\ client.pc \in {"initial", "followup"}
    /\ \/ client' = [client EXCEPT !.pc = "threw", !.calls = client.calls + 1]
       \/ \E kind \in AnswerKinds :
            client' = [client EXCEPT !.pc = "while",
                                     !.calls = client.calls + 1,
                                     !.result = Answer(client.calls + 1, kind)]
    /\ UNCHANGED <<router, call, schema>>

\* The test of the while loop, iteration++, and after the loop the return.
While ==
    /\ client.pc = "while"
    /\ client' =
         IF client.result.kind = "null" THEN [client EXCEPT !.pc = "threw"]
         ELSE IF LoopContinues(client)
         THEN [client EXCEPT !.pc = "tools", !.iteration = client.iteration + 1]
         ELSE [client EXCEPT !.pc = "returned", !.returned = client.result]
    /\ UNCHANGED <<router, call, schema>>

\* The body of the loop up to the follow-up call: JSON.parse of the
\* arguments throws, executeMCPTool catches whatever callTool throws.
ExecuteTools ==
    /\ client.pc = "tools"
    /\ client' = [client EXCEPT
                     !.pc = IF client.result.kind = "bad_function_call"
                            THEN "threw" ELSE "followup"]
    /\ UNCHANGED <<router, call, schema>>

\* runMCPClient has returned or thrown: the callback calls loop() again.
Loop ==
    /\ client.pc \in {"returned", "threw"}
    /\ client' = [client EXCEPT !.pc = "prompt"]
    /\ UNCHANGED <<router, call, schema>>

ClientNext ==
    \/ StartUp
    \/ Exit
    \/ RunMCPClient
    \/ RunConnect
    \/ ListTools
    \/ CallAIAPI
    \/ While
    \/ ExecuteTools
    \/ Loop

ClientSpec == ClientInit /\ [][ClientNext]_vars

(***************************************************************************)
(* A call of sanitizeSchemaForGemini on some schema.                       *)
(***************************************************************************)
SanitizeInit ==
    /\ variant = "handleMcp"
    /\ transports = [k \in {} |-> 0]
    /\ engines = <<>>
    /\ inflight = [k \in {} |-> 0]
    /\ nreq = 0
    /\ last = NoResponse
    /\ call = NoCall
    /\ client = NoClient
    /\ schema \in [pc : {"pending"}, in : Schemas, out : {Prim("none")}]

SanitizeSchemaForGemini ==
    /\ schema.pc = "pending"
    /\ schema' = [schema EXCEPT !.pc = "done", !.out = Sanitize(schema.in)]
    /\ UNCHANGED <<router, call, client>>

SanitizeSpec == SanitizeInit /\ [][SanitizeSchemaForGemini]_vars

(***************************************************************************)
(* Vocabulary of the properties.                                           *)
(***************************************************************************)
\* This step is the arrival of a request (last' then describes it).
Arrival == nreq' = nreq + 1

\* The event is an arrival that a /mcp route handler received.
AtRouter(e) == e.in # NoInput /\ e.via \notin {"middleware", "noroute"}

\* The event is the end of a request that had been suspended.
Ended(e) == e.req > 0 /\ e.in = NoInput

\* The event is a 4xx answer given without touching an engine.
Rejected(e) == e.via \in {"reject", "notfound", "middleware", "noroute"}

\* Frames whose handleRequest call is in flight.
Handling == {r \in DOMAIN inflight : inflight[r].pc = "handling"}

(***************************************************************************)
(* C1.  Every POST /mcp message that carries a session id which the table  *)
(* does not resolve is answered with the Invalid-session rejection (400)   *)
(* and creates no session, also when its body is a handshake; stated of    *)
(* handleMcp and of the authenticated server file.                         *)
(***************************************************************************)
C1_UnknownIdAlwaysRejected ==
    [][(/\ Arrival
        /\ variant \in {"handleMcp", "authenticated"}
        /\ AtRouter(last')
        /\ last'.in.method = "POST"
        /\ Truthy(last'.in.hdr)
        /\ Lookup(transports, last'.in.hdr) = NoTransport)
       => (/\ last'.via = "reject"
           /\ last'.status = 400
           /\ transports' = transports
           /\ engines' = engines)]_vars

(***************************************************************************)
(* C2.  A POST with no session id and a handshake body adds exactly one    *)
(* new entry to the table, the id of that entry is reported to the caller, *)
(* and every later message carrying an id of the table is dispatched.      *)
(* As claimed: the id is reported whenever such a request ends.            *)
(***************************************************************************)
NoIdHandshake(e) == e.method = "POST" /\ e.sessionId = Absent /\ e.isInit

AddsOneEntry ==
    (Arrival /\ AtRouter(last') /\ NoIdHandshake(last'))
    => (/\ last'.via = "await"
        /\ last'.newId \notin DOMAIN transports
        /\ DOMAIN transports' = DOMAIN transports \cup {last'.newId}
        /\ \A k \in DOMAIN transports : transports'[k] = transports[k]
        /\ inflight'[last'.req].newId = last'.newId)

LaterMessageAccepted ==
    /\ DOMAIN transports \subseteq DOMAIN transports'
    /\ (Arrival /\ AtRouter(last') /\ last'.sessionId \in DOMAIN transports)
       => (last'.via = "await" /\ inflight'[last'.req].pc = "handling")

C3_KnownIdDispatched ==
    [][(Arrival /\ AtRouter(last') /\ last'.sessionId \in DOMAIN transports)
       => (/\ last'.via = "await"
           /\ last'.transport = transports[last'.sessionId]
           /\ inflight'[last'.req].pc = "handling"
           /\ inflight'[last'.req].transport = transports[last'.sessionId]
           /\ transports' = transports
           /\ engines' = engines)]_vars

\* A handshake body that carries a known id has been dispatched.
C3_Witness ==
    /\ last.via = "await"
    /\ last.in.isInit
    /\ last.in.hdr \in DOMAIN transports
    /\ last.newId = Absent
    /\ last.transport = transports[last.in.hdr]
    /\ last.req \in Handling

(***************************************************************************)
(* C4.  A session id is a key of the table only when the connect() call of *)
(* the engine stored under it has completed successfully.                  *)
(***************************************************************************)
C4_VisibleOnlyWhenConnected ==
    \A id \in DOMAIN transports : engines[transports[id]].conn = "connected"

(***************************************************************************)
(* C5.  When connect() has failed during a session creation, the table     *)
(* holds no entry for the id generated for that request once it has ended. *)
(***************************************************************************)
C5_FailedConnectLeavesNoEntry ==
    (/\ Ended(last)
     /\ last.newId # Absent
     /\ engines[last.transport].conn = "failed")
    => last.newId \notin DOMAIN transports

(***************************************************************************)
(* C6.  A POST with no session id whose body is no handshake is rejected   *)
(* with status 400 and a JSON-RPC error envelope, code -32600.             *)
(* As claimed: on every POST /mcp handler the message is "Invalid session" *)
(* and the id null.                                                        *)
(***************************************************************************)
NoIdNoHandshake(e) ==
    AtRouter(e) /\ e.in.method = "POST" /\ e.in.hdr = Absent /\ ~e.in.isInit

C6_Original ==
    NoIdNoHandshake(last)
    => (/\ last.via = "reject"
        /\ last.status = 400
        /\ last.code = -32600
        /\ last.msg = "Invalid session"
        /\ last.id = "null")

\* As amended: status 400 and code -32600 on every handler; the message
\* "Invalid session" and the id null on handleMcp and the monolithic file;
\* the authenticated and the logging file send their own message, and the
\* logging file answers with the id of the body.
C6_NoIdNoHandshakeRejected ==
    NoIdNoHandshake(last)
    => (/\ last.via = "reject"
        /\ last.status = 400
        /\ last.code = -32600
        /\ variant \in {"handleMcp", "monolithic"}
           => (last.msg = "Invalid session" /\ last.id = "null")
        /\ variant = "authenticated"
           => (/\ last.msg = "Invalid request: missing session or not an initialize request"
               /\ last.id = "null")
        /\ variant = "logging"
           => (/\ last.msg = "Invalid Request: Initialization required."
               /\ last.id = last.in.bodyId))

\* handleMcp has rejected a POST without id and without handshake while a
\* session exists.
C6_Witness ==
    /\ variant = "handleMcp"
    /\ NoIdNoHandshake(last)
    /\ last.status = 400
    /\ last.msg = "Invalid session"
    /\ DOMAIN transports # {}

(***************************************************************************)
(* C7.  A rejected message changes nothing: the table, the engines and the *)
(* handleRequest calls in flight are the same after the rejection, so any  *)
(* number of consecutive rejections leaves the table as it was.            *)
(***************************************************************************)
C7_RejectionChangesNothing ==
    [][(Arrival /\ Rejected(last'))
       => (/\ transports' = transports
           /\ engines' = engines
           /\ inflight' = inflight)]_vars

\* The third request has been rejected while the table holds a session
\* whose creating request is still in flight.
C7_Witness ==
    /\ last.via = "reject"
    /\ last.req = 3
    /\ DOMAIN inflight = {1}
    /\ Cardinality(DOMAIN transports) = 1

(***************************************************************************)
(* C8.  Handshakes that interleave create distinct sessions: no two        *)
(* engines were given the same id, every creation has its own entry (none  *)
(* was overwritten) and each entry is bound to the engine made for its id. *)
(***************************************************************************)
C8_DistinctSessions ==
    /\ \A e1, e2 \in DOMAIN engines : e1 # e2 => engines[e1].gen # engines[e2].gen
    /\ Cardinality(DOMAIN transports) = Len(engines)
    /\ \A id \in DOMAIN transports :
         /\ transports[id] \in DOMAIN engines
         /\ engines[transports[id]].gen = id
    /\ \A r \in DOMAIN inflight :
         inflight[r].newId # Absent
         => (/\ inflight[r].newId \in DOMAIN transports
             /\ transports[inflight[r].newId] = inflight[r].transport)

\* Two handshakes without id are both waiting for connect().
C8_Witness ==
    \E r1, r2 \in DOMAIN inflight :
      /\ r1 # r2
      /\ inflight[r1].pc = "connecting" /\ inflight[r1].sessionId = Absent
      /\ inflight[r2].pc = "connecting" /\ inflight[r2].sessionId = Absent
      /\ Cardinality(DOMAIN transports) = 2

(***************************************************************************)
(* C9.  Dispatch is serialized per session: at most one handleRequest call *)
(* of an engine is in flight at any time.                                  *)
(***************************************************************************)
C9_SerializedPerSession ==
    \A r1, r2 \in Handling :
      r1 # r2 => inflight[r1].transport # inflight[r2].transport

(***************************************************************************)
(* C10.  Messages of one session are processed in arrival order: of two    *)
(* messages that carry the same session id, the later one starts its       *)
(* handleRequest call after the earlier one and does not end before it.    *)
(***************************************************************************)
Carries(f) == f.newId = Absent /\ f.pc = "handling"

C10_ArrivalOrder ==
    [][\A a, b \in DOMAIN inflight :
         (/\ a < b
          /\ Carries(inflight[a]) /\ Carries(inflight[b])
          /\ inflight[a].transport = inflight[b].transport)
         => ~(b \notin DOMAIN inflight' /\ a \in DOMAIN inflight')]_vars

(***************************************************************************)
(* C11.  A session is removed from the table when its engine signals its   *)
(* termination: no key of the table is bound to an engine that has closed, *)
(* so a message that carries the id of a closed session finds no entry.    *)
(***************************************************************************)
C11_RemovedOnTermination ==
    \A s \in DOMAIN transports : engines[transports[s]].conn # "closed"

(***************************************************************************)
(* C12.  The binding of a session id to its engine never changes: a key    *)
(* that stays in the table stays bound to the same engine, and the id      *)
(* generator of the engine bound to s returns s, before and after every    *)
(* step.                                                                   *)
(***************************************************************************)
C12_BindingNeverChanges ==
    [][/\ \A s \in DOMAIN transports \cap DOMAIN transports' :
            /\ transports'[s] = transports[s]
            /\ engines'[transports[s]].gen = engines[transports[s]].gen
       /\ \A s \in DOMAIN transports' : engines'[transports'[s]].gen = s]_vars

\* Two sessions, the first one connected and used, each bound to its own
\* engine.
C12_Witness ==
    /\ Cardinality(DOMAIN transports) = 2
    /\ \E r \in Handling :
         /\ inflight[r].sessionId = UUID(1)
         /\ inflight[r].transport = transports[UUID(1)]
    /\ engines[transports[UUID(2)]].gen = UUID(2)

(***************************************************************************)
(* C13.  A failed dispatch leaves the session usable.  The step in which   *)
(* handleRequest throws changes neither the table nor the engines, and a   *)
(* request that arrives right after it with the id of that session is      *)
(* dispatched to the session's engine.  A handleRequest call that never    *)
(* returns takes no step at all.                                           *)
(***************************************************************************)
DispatchFails(r) ==
    /\ r \in Handling
    /\ r \notin DOMAIN inflight'
    /\ last'.via \in {"unhandled", "catch"}

\* The event is the end of a request whose handleRequest call threw.
FailedDispatch(e) ==
    /\ Ended(e)
    /\ e.via \in {"unhandled", "catch"}
    /\ e.transport \in 1..Len(engines)
    /\ engines[e.transport].conn = "connected"

C13_FailedDispatchKeepsSession ==
    [][/\ (\E r \in DOMAIN inflight : DispatchFails(r))
            => transports' = transports /\ engines' = engines
       /\ \A s \in DOMAIN transports :
            (/\ FailedDispatch(last) /\ transports[s] = last.transport
             /\ Arrival /\ AtRouter(last')
             /\ SessionIdOf(variant, last'.in) = s)
            => /\ last'.via = "await"
               /\ last'.transport = transports[s]
               /\ \E r \in DOMAIN inflight' : /\ inflight'[r].pc = "handling"
                                               /\ inflight'[r].transport = transports[s]]_vars

\* A message of an existing session was dispatched, handleRequest threw
\* before any header was sent, and the id of the session is still a key.
C13_Witness ==
    /\ FailedDispatch(last)
    /\ last.status # 200
    /\ last.newId = Absent
    /\ last.sessionId \in DOMAIN transports
    /\ transports[last.sessionId] = last.transport

(***************************************************************************)
(* C14.  A POST that created a session and was answered by the engine      *)
(* carries the response header mcp-session-id, equal to the key inserted   *)
(* and to the id of the engine's generator.                                *)
(* As claimed: on every POST handler.                                      *)
(***************************************************************************)
CreatedAndAnswered(e) == Ended(e) /\ e.via = "engine" /\ e.newId # Absent

KeyIsGeneratedId(e) ==
    /\ e.newId \in DOMAIN transports
    /\ transports[e.newId] = e.transport
    /\ engines[e.transport].gen = e.newId

PlainText(e) == e.code = 0 /\ e.id = "none"

C15_UnknownGetIs404 ==
    [][(/\ Arrival
        /\ variant \in {"handleMcp", "monolithic"}
        /\ last'.in.method = "GET"
        /\ Lookup(transports, last'.in.hdr) = NoTransport
        /\ Lookup(transports, last'.in.qry) = NoTransport)
       => (/\ last'.status = 404
           /\ PlainText(last')
           /\ transports' = transports
           /\ engines' = engines
           /\ inflight' = inflight)]_vars

(***************************************************************************)
(* C16.  GET /mcp for an existing session is routed to the session's       *)
(* engine when the id is supplied in the header, and equally when it is    *)
(* supplied in the query string.                                           *)
(***************************************************************************)
IdInOnePlace(in, s) ==
    \/ in.hdr = s /\ in.qry = Absent
    \/ in.hdr = Absent /\ in.qry = s

C16_GetByHeaderOrQuery ==
    [][\A s \in DOMAIN transports :
         (/\ Arrival
          /\ variant \in {"handleMcp", "monolithic", "logging"}
          /\ last'.in.method = "GET"
          /\ IdInOnePlace(last'.in, s))
         => (/\ last'.via = "await"
             /\ last'.transport = transports[s]
             /\ inflight'[last'.req].pc = "handling"
             /\ inflight'[last'.req].transport = transports[s])]_vars

(***************************************************************************)
(* C17.  A POST /mcp in which connect() or handleRequest() throws before   *)
(* any header is sent is answered 500, and every POST /mcp that reached a  *)
(* handler and has ended was answered with 200, 400 or 500.                *)
(***************************************************************************)
\* The event ends a POST in which a call of an engine threw before any
\* header was sent.
ThrewBeforeHeaders(e) ==
    /\ e.method = "POST"
    /\ e.via \in {"catch", "unhandled"}
    /\ e.transport \in 1..Len(engines)
    /\ e.status # 200

PostOver(e) ==
    /\ e.method = "POST"
    /\ e.via \in {"reject", "engine", "catch", "unhandled"}
    /\ e.transport # Inherited

C17_ThrowAnswered500 ==
    /\ ThrewBeforeHeaders(last) => last.status = 500
    /\ PostOver(last) => last.status \in {200, 400, 500}

(***************************************************************************)
(* C18.  No tool handler throws: for every tool and every upstream answer  *)
(* (network failure, non-2xx, unparseable or malformed body) the call ends *)
(* with a result that holds exactly one text block.                        *)
(***************************************************************************)
WellFormedResult(r) ==
    /\ ~r.threw
    /\ Len(r.content) = 1
    /\ r.content[1].type = "text"

C18_ToolNeverThrows ==
    (call.kind = "tool" /\ call.pc = "done") => WellFormedResult(call.result)

(***************************************************************************)
(* C19.  apiRequest never throws.  It returns null on a network failure,   *)
(* on a response that is not ok and on a body that does not parse, and the *)
(* parsed body otherwise.                                                  *)
(***************************************************************************)
Failure(u) == u.net = "error" \/ ~u.ok \/ u.body = "unparseable"

C19_ApiRequestNullOnFailure ==
    (call.kind = "api" /\ call.pc = "done")
    => /\ ~call.result.threw
       /\ Failure(call.upstream) => call.result.value = Null
       /\ ~Failure(call.upstream) => call.result.value = call.upstream.body

\* apiRequest has returned null for a response that is ok with a body that
\* does not parse.
C19_Witness ==
    /\ call.kind = "api" /\ call.pc = "done"
    /\ call.upstream.net = "up" /\ call.upstream.ok
    /\ call.upstream.body = "unparseable"
    /\ call.result = Returned(Null)

(***************************************************************************)
(* C20.  GET /health answers 200 with the body                             *)
(* {"status":"healthy","transport":"streamable-http"} and changes          *)
(* nothing: the table, the engines and the suspended requests stay as they *)
(* are.  The table grows only in a step in which a /mcp handler receives a *)
(* request.                                                                *)
(* As claimed: exactly that body from every /health handler.               *)
(***************************************************************************)
HealthStep == last'.via = "health" /\ last.via # "health"

NoSideEffect ==
    /\ transports' = transports
    /\ engines' = engines
    /\ inflight' = inflight
    /\ nreq' = nreq

OnlyRouterInserts ==
    DOMAIN transports' # DOMAIN transports
    => (Arrival /\ AtRouter(last') /\ last'.in.method \in {"POST", "GET"})

C20_Original ==
    [][/\ HealthStep
          => /\ last'.status = 200
             /\ last'.msg = "{status:healthy,transport:streamable-http}"
             /\ NoSideEffect
       /\ OnlyRouterInserts]_vars

\* As amended: the modular application answers exactly that body; the
\* three server files add the server name and the time of the answer.
C20_HealthAnswersAndChangesNothing ==
    [][/\ HealthStep
          => /\ last'.status = 200
             /\ last'.msg =
                  IF variant = "handleMcp"
                  THEN "{status:healthy,transport:streamable-http}"
                  ELSE "{status:healthy,server:simple-mcp,transport:streamable-http,timestamp:now}"
             /\ NoSideEffect
       /\ OnlyRouterInserts]_vars

\* /health was answered by the monolithic server while a session existed
\* and a request was suspended.
C20_Witness ==
    /\ variant = "monolithic"
    /\ last.via = "health"
    /\ last.status = 200
    /\ DOMAIN transports # {}
    /\ Handling # {}

(***************************************************************************)
(* C21.  Whenever apiRequest returns null, the handler that called it      *)
(* (get_crypto_news, get_global_market with any view) returns a result     *)
(* with one explanatory text block and does not throw.                     *)
(***************************************************************************)
CallsApiRequest(c) ==
    c.kind = "tool" /\ c.tool \in {"get_crypto_news", "get_global_market"}

Explanation(tool) ==
    IF tool = "get_crypto_news" THEN "No news found"
                                ELSE "Failed to fetch market data"

C21_NullDegradesGracefully ==
    (/\ CallsApiRequest(call)
     /\ call.pc = "done"
     /\ ApiRequest(call.upstream) = Returned(Null))
    => /\ WellFormedResult(call.result)
       /\ call.result.content[1].text = Explanation(call.tool)

\* get_global_market was asked for the volume while the network was down.
C21_Witness ==
    /\ call.pc = "done"
    /\ call.tool = "get_global_market"
    /\ call.view = "volume"
    /\ call.upstream = NetworkError
    /\ call.result = Text("Failed to fetch market data")

(***************************************************************************)
(* C22.  Handshake before use: no handleRequest call is in flight on an    *)
(* engine whose connect() has not yet returned, whatever requests arrive   *)
(* with the session's id while the creating request is suspended.          *)
(***************************************************************************)
C22_HandshakeBeforeUse ==
    \A r \in Handling :
      inflight[r].transport \in 1..Len(engines)
      => engines[inflight[r].transport].conn # "connecting"

(***************************************************************************)
(* C23.  The four POST handlers decide alike (reuse, create or reject) for *)
(* every request, whether its session id is absent, a key of the table or  *)
(* present and no key, with a handshake body or not; except that for an id *)
(* that is present and no key with a handshake body the authenticated      *)
(* handler rejects and the three others create.                            *)
(***************************************************************************)
PostRequests ==
    [method : {"POST"}, hdr : IdValues, qry : {Absent}, isInit : BOOLEAN,
     bodyId : {"null"}, auth : {"valid"}]

PresentAndUnknown(in) == in.hdr # Absent /\ in.hdr \notin DOMAIN transports

SameDecision(in) ==
    \A v, w \in Variants :
      PostDecision(v, in, transports) = PostDecision(w, in, transports)

C23_SameDecisionButOne ==
    \A in \in PostRequests :
      IF PresentAndUnknown(in) /\ in.isInit
      THEN /\ PostDecision("authenticated", in, transports) = "reject"
           /\ \A v \in Variants \ {"authenticated"} :
                PostDecision(v, in, transports) = "create"
      ELSE SameDecision(in)

(***************************************************************************)
(* C24.  On the authenticated server a request to /mcp without the         *)
(* configured bearer token is answered 401 by the middleware and reaches   *)
(* no handler: the table, the engines and the suspended requests stay as   *)
(* they are, also when the request carries the id of a session.            *)
(***************************************************************************)
C24_Unauthorized401 ==
    [][(Arrival /\ variant = "authenticated" /\ last'.in.auth # "valid")
       => (/\ last'.via = "middleware"
           /\ last'.status = 401
           /\ transports' = transports
           /\ engines' = engines
           /\ inflight' = inflight)]_vars

\* A request with a wrong token and the id of an existing session got 401.
C24_Witness ==
    /\ variant = "authenticated"
    /\ last.via = "middleware"
    /\ last.status = 401
    /\ last.in.auth = "wrong"
    /\ last.in.hdr \in DOMAIN transports
    /\ engines[transports[last.in.hdr]].conn = "connected"

(***************************************************************************)
(* C25.  Every session has a createdAt and a lastActivityAt, and every     *)
(* accepted message updates the lastActivityAt of its session.  Stated     *)
(* here in its weakest form: what the router keeps of each session holds   *)
(* the two timestamps.                                                     *)
(***************************************************************************)
C25_LastActivityKept ==
    \A s \in DOMAIN transports :
      {"createdAt", "lastActivityAt"} \subseteq DOMAIN SessionRecord(transports, s)

(***************************************************************************)
(* C26.  Every key of the table was generated by the router: it is the id  *)
(* of an engine's generator and none of the strings a caller can supply    *)
(* without having been given it, and a request that creates a session      *)
(* creates it under an id other than the one it supplied.                  *)
(***************************************************************************)
C26_KeysAreGenerated ==
    /\ DOMAIN transports \subseteq Issued
    /\ DOMAIN transports \cap {Absent, EmptyId, ForeignId, ProtoKey} = {}
    /\ last.newId # Absent
       => last.newId # last.sessionId /\ last.newId \in DOMAIN transports

\* A handshake that supplied an unknown id created a session under a
\* generated id.
C26_Witness ==
    /\ last.in.method = "POST"
    /\ last.in.hdr = ForeignId
    /\ last.in.isInit
    /\ last.via = "await"
    /\ last.newId \in DOMAIN transports
    /\ ForeignId \notin DOMAIN transports

(***************************************************************************)
(* C27.  handleMcp treats an empty mcp-session-id header like an absent    *)
(* one: with a handshake body it creates a session, with any other body it *)
(* answers 400, and the empty string is never a key of the table.          *)
(***************************************************************************)
EmptyHeaderAtHandleMcp(e) ==
    /\ variant = "handleMcp"
    /\ e.in.method = "POST"
    /\ e.in.hdr = EmptyId

C27_EmptyHeaderIsAbsent ==
    /\ EmptyId \notin DOMAIN transports
    /\ EmptyHeaderAtHandleMcp(last)
       => /\ HandleMcpDecision(last.in, transports)
               = HandleMcpDecision([last.in EXCEPT !.hdr = Absent], transports)
          /\ IF last.in.isInit
             THEN /\ last.via = "await"
                  /\ last.newId \in DOMAIN transports
                  /\ last.newId # EmptyId
             ELSE /\ last.via = "reject"
                  /\ last.status = 400
                  /\ last.transport = NoTransport

\* A handshake with an empty header has created a session.
C27_Witness ==
    /\ EmptyHeaderAtHandleMcp(last)
    /\ last.in.isInit
    /\ last.via = "await"
    /\ last.newId \in DOMAIN transports

(***************************************************************************)
(* C28.  runMCPClient ends its function-calling loop after at most 10      *)
(* rounds: whatever the AI API answers, one run makes at most 11 calls of  *)
(* the API, 1 first call and at most 10 follow-ups.                        *)
(* As claimed: and every run then returns the last result.                 *)
(***************************************************************************)
AtMostElevenCalls ==
    /\ client.iteration <= MaxIterations
    /\ client.calls <= client.iteration + 1
    /\ client.calls <= MaxIterations + 1

\* The run is over and every call of the API it made was answered.
RunOver ==
    /\ client.pc \in {"returned", "threw"}
    /\ client.calls > 0
    /\ client.result.id = client.calls

ReturnsLastResult ==
    /\ client.pc = "returned"
    /\ client.returned = client.result
    /\ client.returned.id = client.calls

C28_Original ==
    /\ AtMostElevenCalls
    /\ RunOver => ReturnsLastResult

\* As amended: a run that no call ended by throwing returns the answer of
\* its last call of the API; that answer is still a function call only
\* when the 10 rounds are used up.
C28_AtMostElevenCalls ==
    /\ AtMostElevenCalls
    /\ client.pc = "returned"
       => /\ ReturnsLastResult
          /\ IsFunctionCall(client.returned) => client.iteration = MaxIterations
    /\ client.pc = "threw" => client.returned = NoAnswer

\* The API answered every call with a function call and the run returned
\* the answer of the 11th call.
C28_Witness ==
    /\ client.pc = "returned"
    /\ client.calls = MaxIterations + 1
    /\ client.returned.kind = "function_call"
    /\ client.returned.id = MaxIterations + 1

(***************************************************************************)
(* C29.  connectToMCP establishes the connection at most once: connect()   *)
(* completes at most one time, after that every call of connectToMCP       *)
(* leaves the client as it is, and isConnected is true exactly when a      *)
(* connect() call has completed (after a failed one it is still false).    *)
(***************************************************************************)
C29_ConnectsAtMostOnce ==
    /\ client.connects <= 1
    /\ client.isConnected <=> client.connects = 1
    /\ client.isConnected => ConnectToMCP(client) = {<<FALSE, client>>}
    /\ ~client.isConnected => <<TRUE, client>> \in ConnectToMCP(client)

\* runMCPClient has called connectToMCP on the connected client and gone on.
C29_Witness ==
    /\ client.pc = "listTools"
    /\ client.isConnected
    /\ client.connects = 1

(***************************************************************************)
(* C30.  The structure sanitizeSchemaForGemini returns holds none of the   *)
(* forbidden keys at any depth, holds every other key of its argument with *)
(* the sanitized value, and is returned unchanged when sanitized again.    *)
(***************************************************************************)
RECURSIVE HasForbiddenKey(_)
HasForbiddenKey(x) ==
    IF x.t = "obj"
    THEN \/ DOMAIN x.own \cap ForbiddenKeys # {}
         \/ \E key \in DOMAIN x.own : HasForbiddenKey(x.own[key])
         \/ HasForbiddenKey(x.proto)
    ELSE IF x.t = "arr" THEN \E i \in 1..Len(x.a) : HasForbiddenKey(x.a[i])
    ELSE FALSE

RECURSIVE KeepsOtherKeys(_, _)
KeepsOtherKeys(in, out) ==
    IF in.t = "obj"
    THEN /\ out.t = "obj"
         /\ DOMAIN out.own = DOMAIN in.own \ ForbiddenKeys
         /\ \A key \in DOMAIN out.own : KeepsOtherKeys(in.own[key], out.own[key])
    ELSE IF in.t = "arr"
    THEN /\ out.t = "arr"
         /\ Len(out.a) = Len(in.a)
         /\ \A i \in 1..Len(in.a) : KeepsOtherKeys(in.a[i], out.a[i])
    ELSE out = in

C30_SanitizeRemovesAndKeeps ==
    schema.pc = "done"
    => /\ ~HasForbiddenKey(schema.out)
       /\ KeepsOtherKeys(schema.in, schema.out)
       /\ Sanitize(schema.out) = schema.out

====
